---- MODULE Spec2Model ----
(***************************************************************************)
(* State-machine model of the Image Toolkit and PDF Toolkit components     *)
(* (src/src/lib/components/tools/ImageToolkit.svelte).                     *)
(*                                                                         *)
(* tk is the Image Toolkit: its component fields under the names of the    *)
(* source, plus the browser resources it drives (object URLs, local        *)
(* storage, the DOM <img> it binds, the async work in flight).  Handlers   *)
(* are operators from a state record to a state record, composed in the    *)
(* order of the statements of the source; every action ends with the       *)
(* Svelte flush (the reactive $: blocks and the re-render).                *)
(*                                                                         *)
(* Numbers: null is Null (-1); quality 0.85 is 85; a ratio w/h is the      *)
(* reduced pair <<w, h>>.                                                  *)
(*                                                                         *)
(* lastEvent names the handler or continuation that ran last and its       *)
(* input; edits counts the edits of the size controls; userPrefs records   *)
(* the format, quality and mode the user chose last (Null: none yet).      *)
(***************************************************************************)
EXTENDS Integers, Sequences, FiniteSets, TLC

VARIABLES tk, pdfFiles, dragPos, exported, lastEvent, edits, userPrefs

vars == <<tk, pdfFiles, dragPos, exported, lastEvent, edits, userPrefs>>

\* ---------------------------------------------------------------- bounds
MaxUrls == 2
MaxPending == 2
MaxPages == 3
MaxPdfs == 2
DimCap == 20000
MaxEdits == 4

\* ------------------------------------------------------------- constants
Null == -1
MAX_FILE_SIZE_BYTES == 50 * 1024 * 1024
MAX_DIMENSION == 8192
CUSTOM_PRESET_VALUE == "custom"

FORMAT_OPTIONS ==
  [ png  |-> [value |-> "png",  extension |-> "png",  lossless |-> TRUE],
    jpeg |-> [value |-> "jpeg", extension |-> "jpg",  lossless |-> FALSE],
    webp |-> [value |-> "webp", extension |-> "webp", lossless |-> FALSE],
    avif |-> [value |-> "avif", extension |-> "avif", lossless |-> FALSE] ]

FormatValues == DOMAIN FORMAT_OPTIONS

PRESET_OPTIONS ==
  [ passport_us      |-> [width |-> 600, height |-> 600, maintainAspect |-> TRUE, shape |-> "square"],
    passport_sg      |-> [width |-> 400, height |-> 514, maintainAspect |-> TRUE, shape |-> "none"],
    avatar_instagram |-> [width |-> 320, height |-> 320, maintainAspect |-> TRUE, shape |-> "square"],
    avatar_facebook  |-> [width |-> 400, height |-> 400, maintainAspect |-> TRUE, shape |-> "square"],
    avatar_linkedin  |-> [width |-> 400, height |-> 400, maintainAspect |-> TRUE, shape |-> "square"],
    avatar_twitter   |-> [width |-> 400, height |-> 400, maintainAspect |-> TRUE, shape |-> "square"],
    avatar_github    |-> [width |-> 500, height |-> 500, maintainAspect |-> TRUE, shape |-> "square"],
    avatar_tiktok    |-> [width |-> 200, height |-> 200, maintainAspect |-> TRUE, shape |-> "square"] ]

PresetValues == DOMAIN PRESET_OPTIONS

IsPassport(value) == value \in {"passport_us", "passport_sg"}

\* ---------------------------------------------------------------- inputs
\* The files a user can pick or drop: id -> File (size, MIME type) and what
\* decoding it as an image yields (naturalWidth x naturalHeight, or failure).
FileTab ==
  << [size |-> 1000,                    type |-> "image/png",  decodable |-> TRUE,  width |-> 800,   height |-> 600],
     [size |-> MAX_FILE_SIZE_BYTES,     type |-> "image/jpeg", decodable |-> TRUE,  width |-> 10000, height |-> 5000],
     [size |-> MAX_FILE_SIZE_BYTES + 1, type |-> "image/png",  decodable |-> TRUE,  width |-> 640,   height |-> 480],
     [size |-> 10,                      type |-> "text/plain", decodable |-> FALSE, width |-> 0,     height |-> 0] >>

Files == DOMAIN FileTab

IsImageType(type) == type \in {"image/png", "image/jpeg", "image/webp", "image/avif"}

\* the images whose sizing is explored
SizingFiles == {1, 2}

\* two images and a file refused for its size, which clears the selection
ResultFiles == {1, 2, 3}

\* valueAsNumber of a dimension field; 0 also stands for the empty field (NaN)
DimInputs == {0, 301, 9000}

\* the choices of the preset <select> that are explored
PresetInputs == {CUSTOM_PRESET_VALUE, "passport_sg", "avatar_github"}

\* the dimension inputs and the formats tried around an export
ExportDimInputs == {0, 9000}
FormatInputs == {"jpeg", "avif"}

QualityInputs == {30, 85}

\* --------------------------------------------------------------- helpers
Max(a, b) == IF a >= b THEN a ELSE b
Min(a, b) == IF a <= b THEN a ELSE b

\* JavaScript truthiness of a number | null
Truthy(x) == x # Null /\ x # 0

\* x ?? y
Coalesce(x, y) == IF x = Null THEN y ELSE x

\* Math.round(n / d) for n >= 0, d > 0 (ties round up); Truncate drops the
\* fraction instead
Truncate(n, d) == n \div d
Round(n, d) == (2 * n + d) \div (2 * d)

\* Math.floor(n / d)
Floor(n, d) == n \div d

RECURSIVE GCD(_, _)
GCD(a, b) == IF b = 0 THEN a ELSE GCD(b, a % b)

\* the number n / d, n > 0, d > 0, as a reduced pair
Ratio(n, d) == LET g == GCD(n, d) IN <<n \div g, d \div g>>

One == <<1, 1>>

\* ------------------------------------------------------- component state
DefaultSettings ==
  [ selectedFormatValue |-> "png", quality |-> 85,
    selectedPresetValue |-> CUSTOM_PRESET_VALUE, mode |-> "crop",
    smoothing |-> "high", keepAspectInResize |-> TRUE ]

\* The <script> block's initial values (lines 66-105)
InitialFields ==
  [ file |-> Null, objectUrl |-> Null, resultUrl |-> Null, resultSize |-> 0,
    lastBlob |-> <<>>, lastDownloadName |-> <<>>,
    processing |-> FALSE, statusMessage |-> "", errorMessage |-> "",
    cropper |-> Null, CropperCtor |-> FALSE, imageRef |-> Null,
    originalWidth |-> 0, originalHeight |-> 0, aspectRatio |-> One,
    selectedFormatValue |-> "png", selectedFormat |-> "png",
    quality |-> 85, maintainAspect |-> TRUE, keepAspectInResize |-> TRUE,
    lastChanged |-> "none",
    targetWidth |-> Null, targetHeight |-> Null,
    smoothing |-> "high", addPrivateSuffix |-> TRUE,
    mode |-> "crop", previousMode |-> "crop", cropShape |-> "square",
    selectedPresetValue |-> CUSTOM_PRESET_VALUE ]

\* ------------------------------------------------------ browser resources
\* URL.createObjectURL: the new URL's id, registered as live
NewUrl(w) == w.urlCount + 1

CreateObjectURL(w) ==
  [w EXCEPT !.urlCount = NewUrl(w), !.liveUrls = @ \cup {NewUrl(w)}]

RevokeObjectURL(w, url) == [w EXCEPT !.liveUrls = @ \ {url}]

cleanupObjectUrl(w) ==
  IF w.objectUrl # Null
    THEN [RevokeObjectURL(w, w.objectUrl) EXCEPT !.objectUrl = Null]
    ELSE w

cleanupResultUrl(w) ==
  IF w.resultUrl # Null
    THEN [RevokeObjectURL(w, w.resultUrl) EXCEPT
            !.resultUrl = Null, !.resultSize = 0,
            !.lastBlob = <<>>, !.lastDownloadName = <<>>]
    ELSE w

destroyCropper(w) ==
  IF w.cropper # Null
    THEN [w EXCEPT !.cropper = Null, !.liveCroppers = @ \ {w.cropper}]
    ELSE w

\* new CropperCtor(imageRef, ...): a live instance, named by the smallest
\* id no live instance has
NewCropper(w) ==
  CHOOSE i \in 1..(Cardinality(w.liveCroppers) + 1) :
    /\ i \notin w.liveCroppers
    /\ \A j \in 1..(i - 1) : j \in w.liveCroppers

ConstructCropper(w) ==
  [w EXCEPT !.cropper = NewCropper(w),
            !.liveCroppers = @ \cup {NewCropper(w)}]

initialiseCropper(w) ==
  IF ~w.CropperCtor \/ w.imageRef = Null
    THEN w
    ELSE ConstructCropper(destroyCropper(w))

resetState(w) ==
  [cleanupResultUrl(cleanupObjectUrl(destroyCropper(w))) EXCEPT
     !.file = Null, !.statusMessage = "", !.errorMessage = "",
     !.originalWidth = 0, !.originalHeight = 0, !.aspectRatio = One,
     !.targetWidth = Null, !.targetHeight = Null,
     !.maintainAspect = TRUE, !.keepAspectInResize = TRUE,
     !.lastChanged = "none", !.cropShape = "square",
     !.selectedPresetValue = CUSTOM_PRESET_VALUE]

\* ---------------------------------------------------------- aspect helpers
alignTargetDimensionsToAspect(w, changed) ==
  IF w.mode # "crop" \/ ~w.maintainAspect THEN w
  ELSE LET width  == w.targetWidth
           height == w.targetHeight
           ar     == w.aspectRatio
       IN  IF Truthy(width) /\ Truthy(height)
             THEN [w EXCEPT !.aspectRatio = Ratio(width, height)]
           ELSE IF changed = "width" /\ Truthy(width)
             THEN [w EXCEPT !.targetHeight = Max(1, Round(width * ar[2], ar[1]))]
           ELSE IF changed = "height" /\ Truthy(height)
             THEN [w EXCEPT !.targetWidth = Max(1, Round(height * ar[1], ar[2]))]
           ELSE w

\* the clamp that ends alignResizeDimensionsToAspect (lines 370-378)
ClampResize(w, srcW, srcH) ==
  LET w1 == IF Truthy(w.targetWidth) /\ w.targetWidth > MAX_DIMENSION
              THEN [w EXCEPT !.targetWidth = MAX_DIMENSION,
                             !.targetHeight = Max(1, Round(MAX_DIMENSION * srcH, srcW))]
              ELSE w
  IN  IF Truthy(w1.targetHeight) /\ w1.targetHeight > MAX_DIMENSION
        THEN [w1 EXCEPT !.targetHeight = MAX_DIMENSION,
                        !.targetWidth = Max(1, Round(MAX_DIMENSION * srcW, srcH))]
        ELSE w1

\* leaveDimensions keeps the fields as they are
leaveDimensions(w, changed) == w
alignResizeDimensionsToAspect(w, changed) ==
  IF w.mode # "resize" \/ ~w.keepAspectInResize THEN w
  ELSE LET srcW   == IF w.originalWidth # 0 THEN w.originalWidth ELSE 1
           srcH   == IF w.originalHeight # 0 THEN w.originalHeight ELSE 1
           width  == w.targetWidth
           height == w.targetHeight
           w1 == IF Truthy(width) /\ ~Truthy(height)
                   THEN [w EXCEPT !.targetHeight = Max(1, Round(width * srcH, srcW))]
                 ELSE IF ~Truthy(width) /\ Truthy(height)
                   THEN [w EXCEPT !.targetWidth = Max(1, Round(height * srcW, srcH))]
                 ELSE IF Truthy(width) /\ Truthy(height)
                   THEN IF changed = "height"
                          THEN [w EXCEPT !.targetWidth = Max(1, Round(height * srcW, srcH))]
                          ELSE [w EXCEPT !.targetHeight = Max(1, Round(width * srcH, srcW))]
                 ELSE w
       IN  ClampResize(w1, srcW, srcH)

applyCropShape(w, shape) ==
  LET w1 == [w EXCEPT !.cropShape = shape]
      w2 == IF shape = "circle"
              THEN LET widthCandidate  == Coalesce(w1.targetWidth, w1.originalWidth)
                       heightCandidate == Coalesce(w1.targetHeight, w1.originalHeight)
                       size == Max(1, Min(widthCandidate, heightCandidate))
                   IN  [w1 EXCEPT !.maintainAspect = TRUE,
                                  !.targetWidth = size, !.targetHeight = size,
                                  !.aspectRatio = One]
              ELSE w1
  IN  IF w2.mode = "crop" /\ w2.maintainAspect
        THEN alignTargetDimensionsToAspect(w2, "none")
        ELSE w2

\* proportional clamp of a preset to MAX_DIMENSION (lines 406-412)
PresetSize(preset) ==
  LET w0 == Max(1, preset.width)
      h0 == Max(1, preset.height)
      m  == Max(w0, h0)
  IN  IF w0 > MAX_DIMENSION \/ h0 > MAX_DIMENSION
        THEN <<Max(1, Floor(w0 * MAX_DIMENSION, m)), Max(1, Floor(h0 * MAX_DIMENSION, m))>>
        ELSE <<w0, h0>>

applyPresetDimensions(w, value) ==
  LET preset == PRESET_OPTIONS[value]
      size == PresetSize(preset)
      w1 == [w EXCEPT !.selectedPresetValue = value,
                      !.targetWidth = size[1], !.targetHeight = size[2],
                      !.aspectRatio = Ratio(size[1], size[2])]
      w2 == IF IsPassport(value)
              THEN [w1 EXCEPT !.selectedFormatValue = "jpeg", !.mode = "crop",
                              !.maintainAspect = TRUE, !.cropShape = "square"]
              ELSE LET w1a == [w1 EXCEPT !.maintainAspect = preset.maintainAspect]
                   IN  IF preset.shape = "none" /\ w1a.cropShape = "circle"
                         THEN applyCropShape(w1a, "square")
                         ELSE w1a
      w3 == IF preset.shape # "none" THEN applyCropShape(w2, preset.shape) ELSE w2
      w4 == IF w3.mode = "resize" /\ w3.keepAspectInResize
              THEN alignResizeDimensionsToAspect(w3, "none")
              ELSE w3
  IN  IF w4.mode = "crop" /\ w4.maintainAspect
        THEN alignTargetDimensionsToAspect(w4, "none")
        ELSE w4

onPresetSelect(w, value) ==
  IF value = CUSTOM_PRESET_VALUE \/ value \notin PresetValues
    THEN [w EXCEPT !.selectedPresetValue = CUSTOM_PRESET_VALUE]
    ELSE applyPresetDimensions(w, value)

\* Number.isFinite(value) && value > 0 ? Math.min(value, MAX_DIMENSION) : null
NextValue(value) == IF value > 0 THEN Min(value, MAX_DIMENSION) ELSE Null

handleTargetWidthInput(w, value) ==
  LET w1 == [w EXCEPT !.targetWidth = NextValue(value),
                      !.selectedPresetValue = CUSTOM_PRESET_VALUE,
                      !.lastChanged = "width"]
      w2 == IF w1.mode = "crop" THEN alignTargetDimensionsToAspect(w1, "width") ELSE w1
  IN  IF w2.mode = "resize" /\ w2.keepAspectInResize
        THEN alignResizeDimensionsToAspect(w2, "width")
        ELSE w2

handleTargetHeightInput(w, value) ==
  LET w1 == [w EXCEPT !.targetHeight = NextValue(value),
                      !.selectedPresetValue = CUSTOM_PRESET_VALUE,
                      !.lastChanged = "height"]
      w2 == IF w1.mode = "crop" THEN alignTargetDimensionsToAspect(w1, "height") ELSE w1
  IN  IF w2.mode = "resize" /\ w2.keepAspectInResize
        THEN alignResizeDimensionsToAspect(w2, "height")
        ELSE w2

resetSizing(w) ==
  LET w1 == [w EXCEPT !.targetWidth = w.originalWidth,
                      !.targetHeight = w.originalHeight,
                      !.maintainAspect = TRUE, !.keepAspectInResize = TRUE,
                      !.selectedPresetValue = CUSTOM_PRESET_VALUE,
                      !.lastChanged = "none"]
      w2 == IF w1.originalWidth # 0 /\ w1.originalHeight # 0
              THEN [w1 EXCEPT !.aspectRatio = Ratio(w1.originalWidth, w1.originalHeight)]
              ELSE w1
      w3 == IF w2.mode = "crop" THEN alignTargetDimensionsToAspect(w2, "none") ELSE w2
  IN  IF w3.mode = "resize" /\ w3.keepAspectInResize
        THEN alignResizeDimensionsToAspect(w3, "none")
        ELSE w3

onMaintainAspectToggle(w, nextValue) ==
  LET w1 == [w EXCEPT !.maintainAspect = nextValue]
  IN  IF w1.mode # "crop" \/ ~w1.maintainAspect THEN w1
      ELSE LET width  == Coalesce(w1.targetWidth, w1.originalWidth)
               height == Coalesce(w1.targetHeight, w1.originalHeight)
               w2 == IF width # 0 /\ height # 0
                       THEN [w1 EXCEPT !.aspectRatio = Ratio(width, height)]
                       ELSE w1
           IN  alignTargetDimensionsToAspect(w2, "none")

onKeepResizeAspectToggle(w, checked) ==
  LET w1 == [w EXCEPT !.keepAspectInResize = checked]
  IN  IF w1.mode = "resize" /\ w1.keepAspectInResize
        THEN alignResizeDimensionsToAspect(w1,
               IF w1.lastChanged = "none" THEN "width" ELSE w1.lastChanged)
        ELSE w1

\* the MAX_DIMENSION cap of handleFileSelection and useFullImage:
\* scale = min(MAX/width, MAX/height), floor(width * scale), floor(height * scale)
CappedSize(width, height) ==
  IF width > MAX_DIMENSION \/ height > MAX_DIMENSION
    THEN LET m == Max(width, height)
         IN  <<Floor(width * MAX_DIMENSION, m), Floor(height * MAX_DIMENSION, m)>>
    ELSE <<width, height>>

useFullImage(w) ==
  IF w.mode # "crop" THEN w
  ELSE IF w.originalWidth = 0 \/ w.originalHeight = 0 THEN w
  ELSE LET size == CappedSize(w.originalWidth, w.originalHeight)
           w1 == [w EXCEPT !.targetWidth = size[1], !.targetHeight = size[2],
                           !.aspectRatio = Ratio(w.originalWidth, w.originalHeight)]
           w2 == IF w1.maintainAspect
                   THEN alignTargetDimensionsToAspect(w1, "none")
                   ELSE w1
       IN  [w2 EXCEPT !.selectedPresetValue = CUSTOM_PRESET_VALUE]

\* ------------------------------------------------------------ file loading
\* candidate.size > MAX_FILE_SIZE_BYTES (line 274); AtLeastLimit also turns
\* away a file of exactly the limit
AtLeastLimit(candidate) == FileTab[candidate].size >= MAX_FILE_SIZE_BYTES
TooLarge(candidate) == FileTab[candidate].size > MAX_FILE_SIZE_BYTES

\* handleFileSelection up to its await (lines 271-292)
handleFileSelection(w, candidate) ==
  IF TooLarge(candidate)
    THEN [resetState(w) EXCEPT !.errorMessage = "File is too large"]
    ELSE LET w1 == [resetState(w) EXCEPT
                      !.file = candidate, !.addPrivateSuffix = TRUE,
                      !.selectedFormatValue = "png", !.quality = 85,
                      !.smoothing = "high",
                      !.statusMessage = "Image loaded",
                      !.selectedPresetValue = CUSTOM_PRESET_VALUE]
             w2 == [CreateObjectURL(w1) EXCEPT !.objectUrl = NewUrl(w1)]
         IN  [w2 EXCEPT !.pending = @ \cup
                {[kind |-> "measure", url |-> w2.objectUrl, file |-> candidate]}]

\* An Image loading t.url settles: the outcomes the browser can produce.  A
\* URL revoked while the load is in flight may or may not still deliver the
\* image.
LoadOutcomes(w, t) ==
  {ok \in BOOLEAN :
     IF ok THEN FileTab[t.file].decodable
           ELSE ~FileTab[t.file].decodable \/ t.url \notin w.liveUrls}

\* handleFileSelection after its await (lines 293-311)
handleFileSelectionResume(w, t, ok) ==
  IF ok
    THEN LET width  == FileTab[t.file].width
             height == FileTab[t.file].height
             size   == CappedSize(width, height)
             w1 == [w EXCEPT
                      !.originalWidth = width, !.originalHeight = height,
                      !.aspectRatio = IF width # 0 /\ height # 0
                                        THEN Ratio(width, height) ELSE One,
                      !.targetWidth = size[1], !.targetHeight = size[2],
                      !.statusMessage =
                         IF width > MAX_DIMENSION \/ height > MAX_DIMENSION
                           THEN "Image scaled down for safety" ELSE @]
         IN  IF w1.mode = "resize" /\ w1.keepAspectInResize
               THEN alignResizeDimensionsToAspect(w1, "none")
               ELSE w1
    ELSE cleanupObjectUrl([w EXCEPT !.errorMessage = "Unable to read image dimensions"])

\* ------------------------------------------------------------------ export
\* the catch and finally of generateResult (lines 738-748);
\* GenerateFailedSilently only runs the finally
GenerateFailedSilently(w, message) == [w EXCEPT !.processing = FALSE]
GenerateFailed(w, message) ==
  [w EXCEPT
     !.errorMessage = IF w.selectedFormat = "avif" /\ message = "Browser could not encode the requested format."
                        THEN "This browser cannot export AVIF yet."
                        ELSE message,
     !.statusMessage = "",
     !.processing = FALSE]

\* what canvas.toBlob delivers for a canvas drawn from `file`
BlobOf(w, file, width, height) ==
  [ file |-> file, width |-> width, height |-> height, mode |-> w.mode,
    cropShape |-> IF w.mode = "crop" THEN w.cropShape ELSE "square",
    format |-> w.selectedFormat,
    quality |-> IF FORMAT_OPTIONS[w.selectedFormat].lossless THEN Null ELSE w.quality,
    size |-> width + height ]

\* canvasToBlob(canvas, selectedFormat.value, qualityOption) is called
StartEncode(w, file, width, height, downloadNow) ==
  [w EXCEPT !.pending = @ \cup
     {[kind |-> "encode", blob |-> BlobOf(w, file, width, height),
       downloadNow |-> downloadNow]}]

\* canvasViaCropperFullFrame when a Cropper can be used (lines 575-610);
\* canvasOk: getCroppedCanvas returned a canvas
canvasViaCropperFullFrame(w, width, height, downloadNow, canvasOk) ==
  LET tempCreated == w.cropper = Null
      w1 == IF tempCreated THEN ConstructCropper(w) ELSE w
  IN  IF ~canvasOk
        THEN GenerateFailed(w1, "Unable to prepare canvas in this browser.")
        ELSE StartEncode(IF tempCreated THEN destroyCropper(w1) ELSE w1,
                         w.file, width, height, downloadNow)

\* canvasFromOriginal -> loadOrientedImageElement (lines 544-561): a new
\* Image is loaded from objectUrl, or from a fallback URL made for the file
canvasFromOriginal(w, width, height, downloadNow) ==
  LET needFallback == w.objectUrl = Null
      w1 == IF needFallback THEN CreateObjectURL(w) ELSE w
  IN  [w1 EXCEPT !.pending = @ \cup
         {[kind |-> "loadEl", file |-> w.file, width |-> width, height |-> height,
           downloadNow |-> downloadNow, url |-> Coalesce(w.objectUrl, NewUrl(w)),
           fallbackObjectUrl |-> IF needFallback THEN NewUrl(w) ELSE Null]}]

\* generateResult up to its first await (lines 665-723)
generateResult(w, downloadNow, canvasOk) ==
  IF w.file = Null
    THEN [w EXCEPT !.errorMessage = "Select an image first."]
    ELSE
      LET w1 == [w EXCEPT !.errorMessage = "", !.statusMessage = "Processing",
                          !.processing = TRUE]
          w2 == IF downloadNow THEN cleanupResultUrl(w1) ELSE w1
          w3 == IF w2.mode = "resize" /\ w2.keepAspectInResize
                  THEN alignResizeDimensionsToAspect(w2,
                         IF w2.lastChanged = "none" THEN "width" ELSE w2.lastChanged)
                  ELSE w2
          width  == Max(1, Coalesce(w3.targetWidth, w3.originalWidth))
          height == Max(1, Coalesce(w3.targetHeight, w3.originalHeight))
      IN  IF w3.mode = "crop"
            THEN IF w3.cropper = Null
                   THEN GenerateFailed(w3, "Cropper is still initialising.")
                   ELSE LET w4 == IF w3.maintainAspect /\ Truthy(w3.targetWidth)
                                       /\ Truthy(w3.targetHeight)
                                    THEN [w3 EXCEPT !.aspectRatio =
                                            Ratio(w3.targetWidth, w3.targetHeight)]
                                    ELSE w3
                        IN  IF ~canvasOk
                              THEN GenerateFailed(w4, "Unable to crop image in this browser.")
                              ELSE StartEncode(w4, w4.file, width, height, downloadNow)
            ELSE IF ~w3.CropperCtor \/ w3.imageRef = Null
                   THEN canvasFromOriginal(w3, width, height, downloadNow)
                   ELSE canvasViaCropperFullFrame(w3, width, height, downloadNow, canvasOk)

\* downloadBlob(blob, filename) (src/src/lib/utils/download.ts): its own
\* object URL is created and revoked within the call
downloadBlob(w, blob, filename) ==
  [w EXCEPT !.downloaded = <<[blob |-> blob, filename |-> filename]>>]

\* deriveFileName({originalName: file.name, targetExtension, suffix})
deriveFileName(file, extension, suffix) ==
  [originalName |-> file, targetExtension |-> extension, suffix |-> suffix]

\* generateResult after canvasToBlob settles (lines 723-748)
generateResultResume(w, t, ok) ==
  IF ~ok
    THEN GenerateFailed(w, "Browser could not encode the requested format.")
    ELSE
      LET w1 == [w EXCEPT !.lastBlob = <<t.blob>>, !.resultSize = t.blob.size]
          w2 == cleanupResultUrl(w1)
          w3 == [CreateObjectURL(w2) EXCEPT !.resultUrl = NewUrl(w2),
                                            !.statusMessage = "Ready"]
      IN  IF w3.file = Null
            THEN GenerateFailed(w3, "TypeError")
            ELSE LET name == deriveFileName(w3.file,
                               FORMAT_OPTIONS[w3.selectedFormat].extension,
                               w3.addPrivateSuffix)
                     w4 == [w3 EXCEPT !.lastDownloadName = <<name>>]
                     w5 == IF t.downloadNow THEN downloadBlob(w4, t.blob, name) ELSE w4
                 IN  [w5 EXCEPT !.processing = FALSE]

\* canvasFromOriginal after the image load settles, on to canvasToBlob
canvasFromOriginalResume(w, t, ok) ==
  IF ~ok
    THEN GenerateFailed(w, "Failed to load image for resizing")
    ELSE LET w1 == IF t.fallbackObjectUrl # Null
                     THEN RevokeObjectURL(w, t.fallbackObjectUrl) ELSE w
         IN  StartEncode(w1, t.file, t.width, t.height, t.downloadNow)

downloadExisting(w, canvasOk) ==
  IF w.lastBlob # <<>> /\ w.lastDownloadName # <<>>
    THEN downloadBlob(w, w.lastBlob[1], w.lastDownloadName[1])
    ELSE generateResult(w, TRUE, canvasOk)

\* ------------------------------------------------- reactive blocks, render
\* $: localStorage.setItem(SETTINGS_KEY, ...) (lines 235-242)
SaveSettings(w) ==
  [w EXCEPT !.localStorage =
     <<[ selectedFormatValue |-> w.selectedFormatValue, quality |-> w.quality,
         selectedPresetValue |-> w.selectedPresetValue, mode |-> w.mode,
         smoothing |-> w.smoothing, keepAspectInResize |-> w.keepAspectInResize ]>>]

\* $: selectedFormat = FORMAT_OPTIONS.find(...) ?? FORMAT_OPTIONS[0]
DeriveSelectedFormat(w) ==
  [w EXCEPT !.selectedFormat =
     IF w.selectedFormatValue \in FormatValues THEN w.selectedFormatValue ELSE "png"]

\* $: if (mode !== previousMode) ... (lines 764-779)
ModeChangeBlock(w) ==
  IF w.mode = w.previousMode THEN w
  ELSE LET w1 == IF w.mode # "crop"
                   THEN destroyCropper(w)
                   ELSE LET w0 == IF Truthy(w.targetWidth) /\ Truthy(w.targetHeight)
                                    THEN [w EXCEPT !.aspectRatio =
                                            Ratio(w.targetWidth, w.targetHeight)]
                                  ELSE IF w.originalWidth # 0 /\ w.originalHeight # 0
                                    THEN [w EXCEPT !.aspectRatio =
                                            Ratio(w.originalWidth, w.originalHeight)]
                                  ELSE w
                        IN  alignTargetDimensionsToAspect(w0, "none")
       IN  [w1 EXCEPT !.previousMode = w.mode]

\* the <img bind:this={imageRef}> of the markup (lines 840-890): present
\* while {#if file && objectUrl} holds, one element per mode branch, the
\* crop branch only once CropperCtor is there
ImgShown(w) ==
  /\ w.file # Null /\ w.objectUrl # Null
  /\ (w.mode = "resize" \/ w.CropperCtor)

\* a DOM element no reference names: the smallest unused id
NewImg(w) ==
  LET used == {w.imageRef} \cup {t.img : t \in {u \in w.pending : u.kind = "init"}}
  IN  CHOOSE i \in 1..(Cardinality(used) + 1) :
        i \notin used /\ \A j \in 1..(i - 1) : j \in used

Render(w, renderedMode) ==
  [w EXCEPT !.imageRef =
     IF ~ImgShown(w) THEN Null
     ELSE IF w.imageRef # Null /\ renderedMode = w.mode THEN w.imageRef
     ELSE NewImg(w)]

\* $: if (mode === 'crop' && !cropper && imageRef && CropperCtor && objectUrl)
\*      initialiseCropperWhenReady()   (lines 190-198, 795)
\* The call runs to `await waitForImage(img)` with img = imageRef.
SpawnInitialiseCropper(w) ==
  IF w.mode = "crop" /\ w.cropper = Null /\ w.imageRef # Null
       /\ w.CropperCtor /\ w.objectUrl # Null
    THEN [w EXCEPT !.pending = @ \cup {[kind |-> "init", img |-> w.imageRef]}]
    ELSE w

\* initialiseCropperWhenReady after waitForImage (lines 196-197);
\* initialiseCropperUnchecked goes on without looking at mode, cropper and img
initialiseCropperUnchecked(w, t) == ConstructCropper(w)
initialiseCropperWhenReadyResume(w, t) ==
  IF w.mode # "crop" \/ w.cropper # Null \/ t.img # w.imageRef
    THEN w
    ELSE initialiseCropper(w)

\* What Svelte runs after a handler or a continuation changed state: the
\* reactive blocks in source order, then the re-render, then the blocks
\* that depend on the bound element.  A destroyed component is not flushed.
Flush(w) ==
  IF w.phase = "destroyed" THEN w
  ELSE SpawnInitialiseCropper(
         Render(ModeChangeBlock(DeriveSelectedFormat(SaveSettings(w))),
                w.previousMode))

\* --------------------------------------------------------------- lifecycle
\* onMount after `await import('cropperjs')` (lines 202-226)
onMountResume(w) ==
  LET w1 == [w EXCEPT !.CropperCtor = TRUE]
      w2 == IF w1.localStorage = <<>> THEN w1
            ELSE LET s == w1.localStorage[1]
                 IN  [w1 EXCEPT !.selectedFormatValue = s.selectedFormatValue,
                                !.quality = s.quality,
                                !.selectedPresetValue = s.selectedPresetValue,
                                !.mode = s.mode,
                                !.smoothing = s.smoothing,
                                !.keepAspectInResize = s.keepAspectInResize]
  IN  [w2 EXCEPT !.keysBound = TRUE]

\* onDestroy (lines 229-233), then the component's DOM is removed
onDestroy(w) ==
  [cleanupResultUrl(cleanupObjectUrl(destroyCropper(w))) EXCEPT
     !.imageRef = Null, !.phase = "destroyed"]

\* what outlives a component instance: the browser's side
BrowserFields == {"liveUrls", "urlCount", "liveCroppers", "localStorage", "downloaded"}

\* a new instance: the <script> block runs, onMount starts its import, and
\* the reactive blocks run once before the first render
Construct(browser) ==
  LET keys == DOMAIN InitialFields \cup BrowserFields \cup {"pending", "phase", "keysBound"}
      w == [k \in keys |->
              IF k \in DOMAIN InitialFields THEN InitialFields[k]
              ELSE IF k \in BrowserFields THEN browser[k]
              ELSE IF k = "pending" THEN {[kind |-> "import"]}
              ELSE IF k = "phase" THEN "alive"
              ELSE FALSE]
  IN  Flush(w)

FreshBrowser ==
  [ liveUrls |-> {}, urlCount |-> 0, liveCroppers |-> {},
    localStorage |-> <<>>, downloaded |-> <<>> ]

\* ------------------------------------------------- Image Toolkit: actions
pdfVars == <<pdfFiles, dragPos, exported>>

Alive == tk.phase = "alive"

\* the controls inside {#if file && objectUrl} are on the page
ControlsShown == Alive /\ tk.file # Null /\ tk.objectUrl # Null

\* the user acts while little async work is in flight
CanAct == Alive /\ Cardinality(tk.pending) < MaxPending

\* the URLs created so far and those the pending exports will create
UrlsClaimed ==
  tk.urlCount + Cardinality({t \in tk.pending : t.kind \in {"encode", "loadEl"}})

\* every URL still to be created fits the bound
UrlBudget == UrlsClaimed < MaxUrls

\* selecting `candidate` creates a URL unless the file is refused for its size
FileBudget(candidate) ==
  FileTab[candidate].size <= MAX_FILE_SIZE_BYTES => UrlBudget

Without(w, t) == [w EXCEPT !.pending = @ \ {t}]

\* a file is picked in the input or dropped on the drop zone
SelectFile(candidate) ==
  /\ CanAct
  /\ tk' = Flush(handleFileSelection(tk, candidate))
  /\ lastEvent' = [op |-> "handleFileSelection", file |-> candidate]
  /\ UNCHANGED pdfVars

MeasureSettle(t, ok) ==
  /\ t \in tk.pending /\ t.kind = "measure"
  /\ ok \in LoadOutcomes(tk, t)
  /\ tk' = Flush(handleFileSelectionResume(Without(tk, t), t, ok))
  /\ lastEvent' = [op |-> "measureImage", file |-> t.file, ok |-> ok]
  /\ UNCHANGED pdfVars

TargetWidthInput(value) ==
  /\ CanAct /\ ControlsShown
  /\ tk' = Flush(handleTargetWidthInput(tk, value))
  /\ lastEvent' = [op |-> "handleTargetWidthInput", value |-> value]
  /\ UNCHANGED pdfVars

TargetHeightInput(value) ==
  /\ CanAct /\ ControlsShown
  /\ tk' = Flush(handleTargetHeightInput(tk, value))
  /\ lastEvent' = [op |-> "handleTargetHeightInput", value |-> value]
  /\ UNCHANGED pdfVars

PresetSelect(value) ==
  /\ CanAct /\ ControlsShown
  /\ tk' = Flush(onPresetSelect(tk, value))
  /\ lastEvent' = [op |-> "onPresetSelect"]
  /\ UNCHANGED pdfVars

CropShapeClick(shape) ==
  /\ CanAct /\ ControlsShown /\ tk.mode = "crop"
  /\ tk' = Flush(applyCropShape(tk, shape))
  /\ lastEvent' = [op |-> "applyCropShape"]
  /\ UNCHANGED pdfVars

\* the mode radio (bind:group={mode}) or the 'c' key
SetMode(m) ==
  /\ CanAct /\ (ControlsShown \/ tk.keysBound)
  /\ m # tk.mode
  /\ tk' = Flush([tk EXCEPT !.mode = m])
  /\ lastEvent' = [op |-> "mode"]
  /\ UNCHANGED pdfVars

MaintainAspectToggle(checked) ==
  /\ CanAct /\ ControlsShown /\ tk.mode = "crop"
  /\ checked # tk.maintainAspect
  /\ tk' = Flush(onMaintainAspectToggle(tk, checked))
  /\ lastEvent' = [op |-> "onMaintainAspectToggle"]
  /\ UNCHANGED pdfVars

KeepResizeAspectToggle(checked) ==
  /\ CanAct /\ ControlsShown /\ tk.mode = "resize"
  /\ checked # tk.keepAspectInResize
  /\ tk' = Flush(onKeepResizeAspectToggle(tk, checked))
  /\ lastEvent' = [op |-> "onKeepResizeAspectToggle"]
  /\ UNCHANGED pdfVars

\* the Reset button or the 'r' key
ResetSizing ==
  /\ CanAct /\ (ControlsShown \/ tk.keysBound)
  /\ tk' = Flush(resetSizing(tk))
  /\ lastEvent' = [op |-> "resetSizing"]
  /\ UNCHANGED pdfVars

\* the "Use full image" button or the 'f' key (both in crop mode only)
UseFullImage ==
  /\ CanAct /\ (ControlsShown \/ tk.keysBound) /\ tk.mode = "crop"
  /\ tk' = Flush(useFullImage(tk))
  /\ lastEvent' = [op |-> "useFullImage"]
  /\ UNCHANGED pdfVars

\* <select bind:value={selectedFormatValue}>
SetFormat(value) ==
  /\ CanAct /\ ControlsShown
  /\ value # tk.selectedFormatValue
  /\ tk' = Flush([tk EXCEPT !.selectedFormatValue = value])
  /\ lastEvent' = [op |-> "format"]
  /\ UNCHANGED pdfVars

\* <input type="range" bind:value={quality}>, shown for lossy formats
SetQuality(value) ==
  /\ CanAct /\ ControlsShown
  /\ ~FORMAT_OPTIONS[tk.selectedFormat].lossless
  /\ value # tk.quality
  /\ tk' = Flush([tk EXCEPT !.quality = value])
  /\ lastEvent' = [op |-> "quality"]
  /\ UNCHANGED pdfVars

\* the Preview button: generateResult(false)
Preview(canvasOk) ==
  /\ CanAct /\ ControlsShown /\ ~tk.processing
  /\ tk' = Flush(generateResult(tk, FALSE, canvasOk))
  /\ lastEvent' = [op |-> "generateResult"]
  /\ UNCHANGED pdfVars

\* the Download button: downloadExisting
Download(canvasOk) ==
  /\ CanAct /\ ControlsShown /\ ~tk.processing
  /\ tk' = Flush(downloadExisting(tk, canvasOk))
  /\ lastEvent' = [op |-> "downloadExisting"]
  /\ UNCHANGED pdfVars

LoadElementSettle(t, ok) ==
  /\ t \in tk.pending /\ t.kind = "loadEl"
  /\ ok \in LoadOutcomes(tk, t)
  /\ tk' = Flush(canvasFromOriginalResume(Without(tk, t), t, ok))
  /\ lastEvent' = [op |-> "loadOrientedImageElement", ok |-> ok]
  /\ UNCHANGED pdfVars

EncodeSettle(t, ok) ==
  /\ t \in tk.pending /\ t.kind = "encode"
  /\ tk' = Flush(generateResultResume(Without(tk, t), t, ok))
  /\ lastEvent' = [op |-> "canvasToBlob", ok |-> ok]
  /\ UNCHANGED pdfVars

InitialiseCropperSettle(t) ==
  /\ t \in tk.pending /\ t.kind = "init"
  /\ tk' = Flush(initialiseCropperWhenReadyResume(Without(tk, t), t))
  /\ lastEvent' = [op |-> "initialiseCropperWhenReady"]
  /\ UNCHANGED pdfVars

ImportSettle(t) ==
  /\ t \in tk.pending /\ t.kind = "import"
  /\ tk' = Flush(onMountResume(Without(tk, t)))
  /\ lastEvent' = [op |-> "onMount"]
  /\ UNCHANGED pdfVars

Destroy ==
  /\ Alive
  /\ tk' = onDestroy(tk)
  /\ lastEvent' = [op |-> "onDestroy"]
  /\ UNCHANGED pdfVars

\* the page is opened again, with the same browser storage, once the work
\* of the destroyed instance has settled
Remount ==
  /\ tk.phase = "destroyed" /\ tk.pending = {}
  /\ tk' = Construct(tk)
  /\ lastEvent' = [op |-> "mount"]
  /\ UNCHANGED pdfVars

Init ==
  /\ tk = Construct(FreshBrowser)
  /\ pdfFiles = <<>>
  /\ dragPos = Null
  /\ exported = <<>>
  /\ lastEvent = [op |-> "mount"]
  /\ edits = 0
  /\ userPrefs = [selectedFormatValue |-> "none", quality |-> Null, mode |-> "none"]

\* the bookkeeping a step leaves alone
ghost == <<edits, userPrefs>>

\* target dimensions stay within the range explored
DimsBounded == tk'.targetWidth <= DimCap /\ tk'.targetHeight <= DimCap

\* the user acts once the async work in flight has settled
Settled == tk.pending = {}

\* nothing is in flight but, possibly, the import of cropperjs
Quiet == \A t \in tk.pending : t.kind = "import"

\* one more of the MaxEdits edits of the size controls
Edit == Settled /\ edits < MaxEdits /\ edits' = edits + 1 /\ UNCHANGED userPrefs

\* Sizing: the dimension fields, presets, shapes and modes of a loaded image
Next ==
  \/ \E candidate \in SizingFiles : Settled /\ FileBudget(candidate) /\ SelectFile(candidate) /\ UNCHANGED ghost
  \/ \E t \in tk.pending, ok \in BOOLEAN : MeasureSettle(t, ok) /\ UNCHANGED ghost
  \/ \E value \in DimInputs : Edit /\ TargetWidthInput(value) /\ DimsBounded
  \/ \E value \in DimInputs : Edit /\ TargetHeightInput(value) /\ DimsBounded
  \/ \E value \in PresetInputs : Edit /\ PresetSelect(value)
  \/ \E shape \in {"square", "circle"} : Edit /\ CropShapeClick(shape)
  \/ \E m \in {"resize", "crop"} : Edit /\ SetMode(m)
  \/ \E checked \in BOOLEAN : Edit /\ MaintainAspectToggle(checked)
  \/ \E checked \in BOOLEAN : Edit /\ KeepResizeAspectToggle(checked)
  \/ Edit /\ ResetSizing
  \/ Edit /\ UseFullImage
  \/ \E t \in tk.pending : InitialiseCropperSettle(t) /\ UNCHANGED ghost
  \/ \E t \in tk.pending : ImportSettle(t) /\ UNCHANGED ghost

Spec == Init /\ [][Next]_vars

\* Export: Preview of an image whose size fields were edited
ExportNext ==
  \/ \E candidate \in SizingFiles : Quiet /\ FileBudget(candidate) /\ SelectFile(candidate) /\ UNCHANGED ghost
  \/ \E t \in tk.pending, ok \in BOOLEAN : MeasureSettle(t, ok) /\ UNCHANGED ghost
  \/ \E value \in ExportDimInputs : Settled /\ TargetWidthInput(value) /\ UNCHANGED ghost
  \/ \E value \in ExportDimInputs : Settled /\ TargetHeightInput(value) /\ UNCHANGED ghost
  \/ \E m \in {"resize", "crop"} : SetMode(m) /\ UNCHANGED ghost
  \/ \E checked \in BOOLEAN : Settled /\ KeepResizeAspectToggle(checked) /\ UNCHANGED ghost
  \/ Settled /\ ResetSizing /\ UNCHANGED ghost
  \/ \E canvasOk \in BOOLEAN : UrlBudget /\ Preview(canvasOk) /\ UNCHANGED ghost
  \/ \E t \in tk.pending, ok \in BOOLEAN : LoadElementSettle(t, ok) /\ UNCHANGED ghost
  \/ \E t \in tk.pending, ok \in BOOLEAN : EncodeSettle(t, ok) /\ UNCHANGED ghost
  \/ \E t \in tk.pending : InitialiseCropperSettle(t) /\ UNCHANGED ghost
  \/ \E t \in tk.pending : ImportSettle(t) /\ UNCHANGED ghost

ExportSpec == Init /\ [][ExportNext]_vars

\* Lifecycle: loading every kind of file, preferences, preview, destroy and
\* a fresh mount, with async work overlapping the user's actions
LifeNext ==
  \/ \E candidate \in Files : FileBudget(candidate) /\ SelectFile(candidate) /\ UNCHANGED ghost
  \/ \E t \in tk.pending, ok \in BOOLEAN : MeasureSettle(t, ok) /\ UNCHANGED ghost
  \/ \E m \in {"resize", "crop"} : SetMode(m) /\ UNCHANGED ghost
  \/ \E value \in FormatInputs : SetFormat(value) /\ UNCHANGED ghost
  \/ \E value \in QualityInputs : SetQuality(value) /\ UNCHANGED ghost
  \/ \E canvasOk \in BOOLEAN : UrlBudget /\ Preview(canvasOk) /\ UNCHANGED ghost
  \/ \E canvasOk \in BOOLEAN : UrlBudget /\ Download(canvasOk) /\ UNCHANGED ghost
  \/ \E t \in tk.pending, ok \in BOOLEAN : LoadElementSettle(t, ok) /\ UNCHANGED ghost
  \/ \E t \in tk.pending, ok \in BOOLEAN : EncodeSettle(t, ok) /\ UNCHANGED ghost
  \/ \E t \in tk.pending : InitialiseCropperSettle(t) /\ UNCHANGED ghost
  \/ \E t \in tk.pending : ImportSettle(t) /\ UNCHANGED ghost
  \/ Destroy /\ UNCHANGED ghost
  \/ Remount /\ UNCHANGED ghost

LifeSpec == Init /\ [][LifeNext]_vars

\* Preferences: the user's choices of format, quality and mode across
\* destroy and a fresh mount with the same local storage
PrefsNext ==
  \/ FileBudget(1) /\ SelectFile(1) /\ UNCHANGED ghost
  \/ \E t \in tk.pending, ok \in BOOLEAN : MeasureSettle(t, ok) /\ UNCHANGED ghost
  \/ \E m \in {"resize", "crop"} :
        SetMode(m) /\ userPrefs' = [userPrefs EXCEPT !.mode = m] /\ UNCHANGED edits
  \/ \E value \in FormatInputs :
        SetFormat(value) /\ userPrefs' = [userPrefs EXCEPT !.selectedFormatValue = value]
                         /\ UNCHANGED edits
  \/ \E value \in QualityInputs :
        SetQuality(value) /\ userPrefs' = [userPrefs EXCEPT !.quality = value]
                          /\ UNCHANGED edits
  \/ \E t \in tk.pending : InitialiseCropperSettle(t) /\ UNCHANGED ghost
  \/ \E t \in tk.pending : ImportSettle(t) /\ UNCHANGED ghost
  \/ Destroy /\ UNCHANGED ghost
  \/ Remount /\ UNCHANGED ghost

PrefsSpec == Init /\ [][PrefsNext]_vars

\* one more URL than MaxUrls: room for a second result of the same image
ResultBudget == UrlsClaimed < MaxUrls + 1

\* Results: Preview and Download of an image in the initial crop mode,
\* repeated, with the format changed in between and the file replaced or
\* refused while encoding
ResultNext ==
  \/ \E candidate \in ResultFiles :
        /\ FileTab[candidate].size <= MAX_FILE_SIZE_BYTES => ResultBudget
        /\ SelectFile(candidate) /\ UNCHANGED ghost
  \/ \E t \in tk.pending, ok \in BOOLEAN : MeasureSettle(t, ok) /\ UNCHANGED ghost
  \/ \E value \in FormatInputs : Quiet /\ SetFormat(value) /\ UNCHANGED ghost
  \/ ResultBudget /\ Preview(TRUE) /\ UNCHANGED ghost
  \/ /\ tk.lastBlob = <<>> \/ tk.lastDownloadName = <<>> => ResultBudget
     /\ Download(TRUE) /\ UNCHANGED ghost
  \/ \E t \in tk.pending, ok \in BOOLEAN : EncodeSettle(t, ok) /\ UNCHANGED ghost
  \/ \E t \in tk.pending : InitialiseCropperSettle(t) /\ UNCHANGED ghost
  \/ \E t \in tk.pending : ImportSettle(t) /\ UNCHANGED ghost

ResultSpec == Init /\ [][ResultNext]_vars

\* ------------------------------------------------------------ PDF Toolkit
\* pdfFiles: the LoadedPdf records (id, pageCount, pageSelection,
\* lastSelectedIndex, pageOrder, pageThumbs, metadata); page indices are
\* 0-based as in the source, positions in pageOrder are 0-based too
\* (pageOrder[pos + 1] here).  pageThumbs is the number of thumbnails
\* rendered (they are rendered in page order), metadata is "set" or "cleared".
\* exported: the pages of the document the last step handed to downloadBlob.

Range(seq) == {seq[k] : k \in DOMAIN seq}

\* Array.prototype.filter
RECURSIVE Filter(_, _)
Filter(seq, keep) ==
  IF seq = <<>> THEN <<>>
  ELSE IF Head(seq) \in keep THEN <<Head(seq)>> \o Filter(Tail(seq), keep)
  ELSE Filter(Tail(seq), keep)

\* order.splice(pos, 1) / order.splice(pos, 0, x), pos 0-based
RemoveAt(seq, pos) == SubSeq(seq, 1, pos) \o SubSeq(seq, pos + 2, Len(seq))
InsertAt(seq, pos, x) == SubSeq(seq, 1, pos) \o <<x>> \o SubSeq(seq, pos + 1, Len(seq))

\* pdfFiles.findIndex(p => p.id === id), 1-based here, 0 when absent
FindIndex(files, id) ==
  IF \E k \in DOMAIN files : files[k].id = id
    THEN CHOOSE k \in DOMAIN files : files[k].id = id
    ELSE 0

\* the LoadedPdf that loadPdfFiles builds (lines 1547-1560)
NewPdf(id, pageCount) ==
  [ id |-> id, pageCount |-> pageCount, pageSelection |-> {},
    lastSelectedIndex |-> Null,
    pageOrder |-> [k \in 1..pageCount |-> k - 1],
    pageThumbs |-> 0, metadata |-> "set" ]

loadPdfFiles(files, pageCount) ==
  files \o <<NewPdf(Len(files) + 1, pageCount)>>

replacePdfById(files, id, pageSelection, lastSelectedIndex) ==
  LET idx == FindIndex(files, id)
  IN  IF idx = 0 THEN files
      ELSE [files EXCEPT ![idx].pageSelection = pageSelection,
                         ![idx].lastSelectedIndex = lastSelectedIndex]

setPageSelection(files, pdf, next, last) ==
  replacePdfById(files, pdf.id, next, last)

togglePageSelection(files, pdf, pageIndex, shiftKey) ==
  LET next ==
        IF shiftKey /\ pdf.lastSelectedIndex # Null
          THEN pdf.pageSelection \cup
                 (Min(pdf.lastSelectedIndex, pageIndex)..Max(pdf.lastSelectedIndex, pageIndex))
        ELSE IF pageIndex \in pdf.pageSelection
          THEN pdf.pageSelection \ {pageIndex}
        ELSE pdf.pageSelection \cup {pageIndex}
  IN  setPageSelection(files, pdf, next, pageIndex)

\* Select all; selectThroughPageCount counts one index too many
selectThroughPageCount(files, pdf) ==
  setPageSelection(files, pdf, 0..pdf.pageCount, pdf.lastSelectedIndex)
selectAllPages(files, pdf) ==
  setPageSelection(files, pdf, 0..(pdf.pageCount - 1), pdf.lastSelectedIndex)

clearPageSelection(files, pdf) ==
  setPageSelection(files, pdf, {}, Null)

\* the 'a' key on the page grid
onPageGridKeydown(files, pdf) ==
  IF Cardinality(pdf.pageSelection) = pdf.pageCount
    THEN clearPageSelection(files, pdf)
    ELSE selectAllPages(files, pdf)

\* movePageCopying writes the moved page over the page at toPos
movePageCopying(files, pdf, fromPos, toPos) ==
  LET idx == FindIndex(files, pdf.id)
  IN  IF idx = 0 \/ fromPos < 0 \/ fromPos >= Len(pdf.pageOrder)
           \/ toPos < 0 \/ toPos >= Len(pdf.pageOrder)
        THEN files
        ELSE [files EXCEPT ![idx].pageOrder[toPos + 1] = pdf.pageOrder[fromPos + 1]]
movePage(files, pdf, fromPos, toPos) ==
  IF fromPos = toPos THEN files
  ELSE IF fromPos < 0 \/ fromPos >= Len(pdf.pageOrder) THEN files
  ELSE IF toPos < 0 \/ toPos >= Len(pdf.pageOrder) THEN files
  ELSE LET id    == pdf.pageOrder[fromPos + 1]
           order == InsertAt(RemoveAt(pdf.pageOrder, fromPos), toPos, id)
           idx   == FindIndex(files, pdf.id)
       IN  IF idx = 0 THEN files ELSE [files EXCEPT ![idx].pageOrder = order]

\* movePageTwoSteps moves the page two positions on
movePageTwoSteps(files, pdf, pos, dir) == movePage(files, pdf, pos, pos + 2 * dir)
movePageStep(files, pdf, pos, dir) == movePage(files, pdf, pos, pos + dir)

movePdf(files, index, direction) ==
  LET newIndex == index + direction
  IN  IF newIndex < 0 \/ newIndex >= Len(files) THEN files
      ELSE InsertAt(RemoveAt(files, index), newIndex, files[index + 1])

\* renderThumbnailsForPdf, one turn of its loop (lines 1589-1608): the next
\* thumbnail is stored in the live record of the PDF
renderThumbnail(files, pdf) ==
  LET idx == FindIndex(files, pdf.id)
  IN  IF idx = 0 THEN files
      ELSE [files EXCEPT ![idx].pageThumbs = pdf.pageThumbs + 1]

\* clearMetadata once the document is saved (lines 1946-1950): the live
\* record of the PDF is patched
clearMetadata(files, pdf) ==
  LET idx == FindIndex(files, pdf.id)
  IN  IF idx = 0 THEN files
      ELSE [files EXCEPT ![idx].metadata = "cleared"]

\* the pages exportSelectedPages copies into the new document (line 1683);
\* SelectedInIndexOrder takes them in document order instead
SelectedInIndexOrder(pdf) == Filter([k \in 1..pdf.pageCount |-> k - 1], pdf.pageSelection)
ExportedPages(pdf) == Filter(pdf.pageOrder, pdf.pageSelection)

\* the pages mergePdfs copies from one PDF (lines 1731-1733), each with the
\* id of its PDF; WholeOrder takes every page whatever the selection
WholeOrder(pdf) == [k \in DOMAIN pdf.pageOrder |-> [pdf |-> pdf.id, page |-> pdf.pageOrder[k]]]
MergePart(pdf) ==
  LET order == IF pdf.pageSelection # {}
                 THEN Filter(pdf.pageOrder, pdf.pageSelection)
                 ELSE pdf.pageOrder
  IN  [k \in DOMAIN order |-> [pdf |-> pdf.id, page |-> order[k]]]

\* the pages of the document mergePdfs builds: for (const pdf of pdfFiles)
RECURSIVE mergePdfs(_)
mergePdfs(files) ==
  IF files = <<>> THEN <<>>
  ELSE MergePart(Head(files)) \o mergePdfs(Tail(files))

\* ---------------------------------------------------- PDF Toolkit: actions
TotalPages == IF pdfFiles = <<>> THEN 0
              ELSE LET RECURSIVE Sum(_)
                       Sum(k) == IF k = 0 THEN 0 ELSE pdfFiles[k].pageCount + Sum(k - 1)
                   IN  Sum(Len(pdfFiles))

imgVars == <<tk, edits, userPrefs>>

LoadPdf(pageCount) ==
  /\ Len(pdfFiles) < MaxPdfs
  /\ TotalPages + pageCount <= MaxPages
  /\ pdfFiles' = loadPdfFiles(pdfFiles, pageCount)
  /\ exported' = <<>>
  /\ lastEvent' = [op |-> "loadPdfFiles", pdf |-> Len(pdfFiles) + 1]
  /\ UNCHANGED <<dragPos, imgVars>>

TogglePageSelection(i, pageIndex, shiftKey) ==
  /\ pageIndex \in Range(pdfFiles[i].pageOrder)
  /\ pdfFiles' = togglePageSelection(pdfFiles, pdfFiles[i], pageIndex, shiftKey)
  /\ exported' = <<>>
  /\ lastEvent' = [op |-> "togglePageSelection", pdf |-> pdfFiles[i].id]
  /\ UNCHANGED <<dragPos, imgVars>>

SelectAllPages(i) ==
  /\ pdfFiles' = selectAllPages(pdfFiles, pdfFiles[i])
  /\ exported' = <<>>
  /\ lastEvent' = [op |-> "selectAllPages", pdf |-> pdfFiles[i].id]
  /\ UNCHANGED <<dragPos, imgVars>>

ClearPageSelection(i) ==
  /\ pdfFiles' = clearPageSelection(pdfFiles, pdfFiles[i])
  /\ exported' = <<>>
  /\ lastEvent' = [op |-> "clearPageSelection", pdf |-> pdfFiles[i].id]
  /\ UNCHANGED <<dragPos, imgVars>>

PageGridKeydown(i) ==
  /\ pdfFiles' = onPageGridKeydown(pdfFiles, pdfFiles[i])
  /\ exported' = <<>>
  /\ lastEvent' = [op |-> "onPageGridKeydown", pdf |-> pdfFiles[i].id]
  /\ UNCHANGED <<dragPos, imgVars>>

\* the move buttons of a page cell; disabled at the ends of the row
MovePageStep(i, pos, dir) ==
  /\ pos \in 0..(Len(pdfFiles[i].pageOrder) - 1)
  /\ dir = -1 => pos # 0
  /\ dir = 1 => pos # Len(pdfFiles[i].pageOrder) - 1
  /\ pdfFiles' = movePageStep(pdfFiles, pdfFiles[i], pos, dir)
  /\ exported' = <<>>
  /\ lastEvent' = [op |-> "movePageStep", pdf |-> pdfFiles[i].id,
                   from |-> pos, to |-> pos + dir]
  /\ UNCHANGED <<dragPos, imgVars>>

\* dragstart on the page cell at pos of some PDF
DragStart(i, pos) ==
  /\ pos \in 0..(Len(pdfFiles[i].pageOrder) - 1)
  /\ dragPos' = pos
  /\ exported' = <<>>
  /\ lastEvent' = [op |-> "onDragStart", pdf |-> pdfFiles[i].id]
  /\ UNCHANGED <<pdfFiles, imgVars>>

\* drop on the page cell at pos of pdfFiles[i]
Drop(i, pos) ==
  /\ pos \in 0..(Len(pdfFiles[i].pageOrder) - 1)
  /\ IF dragPos = Null
       THEN UNCHANGED <<pdfFiles, dragPos>>
       ELSE /\ pdfFiles' = movePage(pdfFiles, pdfFiles[i], dragPos, pos)
            /\ dragPos' = Null
  /\ exported' = <<>>
  /\ lastEvent' = [op |-> "onDrop", pdf |-> pdfFiles[i].id,
                   from |-> dragPos, to |-> pos]
  /\ UNCHANGED imgVars

\* the arrows of a PDF's header; disabled at the ends of the list
MovePdf(i, direction) ==
  /\ direction = -1 => i # 1
  /\ direction = 1 => i # Len(pdfFiles)
  /\ pdfFiles' = movePdf(pdfFiles, i - 1, direction)
  /\ exported' = <<>>
  /\ lastEvent' = [op |-> "movePdf", pdf |-> pdfFiles[i].id]
  /\ UNCHANGED <<dragPos, imgVars>>

\* "Export selection" (disabled while nothing is selected); ok: pdf-lib
\* loaded and saved the document
ExportSelectedPages(i, ok) ==
  /\ pdfFiles[i].pageSelection # {}
  /\ exported' = IF ok THEN <<ExportedPages(pdfFiles[i])>> ELSE <<>>
  /\ lastEvent' = [op |-> "exportSelectedPages", pdf |-> pdfFiles[i].id, ok |-> ok]
  /\ UNCHANGED <<pdfFiles, dragPos, imgVars>>

\* a thumbnail of pdfFiles[i] has been rendered
ThumbnailRendered(i) ==
  /\ pdfFiles[i].pageThumbs < pdfFiles[i].pageCount
  /\ pdfFiles' = renderThumbnail(pdfFiles, pdfFiles[i])
  /\ exported' = <<>>
  /\ lastEvent' = [op |-> "renderThumbnailsForPdf", pdf |-> pdfFiles[i].id]
  /\ UNCHANGED <<dragPos, imgVars>>

\* "Clear metadata"; ok: pdf-lib loaded and saved the document
ClearMetadata(i, ok) ==
  /\ pdfFiles' = IF ok THEN clearMetadata(pdfFiles, pdfFiles[i]) ELSE pdfFiles
  /\ exported' = <<>>
  /\ lastEvent' = [op |-> "clearMetadata", pdf |-> pdfFiles[i].id, ok |-> ok]
  /\ UNCHANGED <<dragPos, imgVars>>

\* "Merge PDFs"; ok: pdf-lib loaded every document and saved the output
MergePdfs(ok) ==
  /\ Len(pdfFiles) >= 2
  /\ exported' = IF ok THEN <<mergePdfs(pdfFiles)>> ELSE <<>>
  /\ lastEvent' = [op |-> "mergePdfs", ok |-> ok]
  /\ UNCHANGED <<pdfFiles, dragPos, imgVars>>

PdfNext ==
  \/ \E pageCount \in 1..MaxPages : LoadPdf(pageCount)
  \/ \E i \in DOMAIN pdfFiles, pageIndex \in 0..(MaxPages - 1), shiftKey \in BOOLEAN :
        TogglePageSelection(i, pageIndex, shiftKey)
  \/ \E i \in DOMAIN pdfFiles : SelectAllPages(i)
  \/ \E i \in DOMAIN pdfFiles : ClearPageSelection(i)
  \/ \E i \in DOMAIN pdfFiles : PageGridKeydown(i)
  \/ \E i \in DOMAIN pdfFiles, pos \in 0..(MaxPages - 1), dir \in {-1, 1} :
        MovePageStep(i, pos, dir)
  \/ \E i \in DOMAIN pdfFiles, pos \in 0..(MaxPages - 1) : DragStart(i, pos)
  \/ \E i \in DOMAIN pdfFiles, pos \in 0..(MaxPages - 1) : Drop(i, pos)
  \/ \E i \in DOMAIN pdfFiles, direction \in {-1, 1} : MovePdf(i, direction)
  \/ \E i \in DOMAIN pdfFiles, ok \in BOOLEAN : ExportSelectedPages(i, ok)
  \/ \E ok \in BOOLEAN : MergePdfs(ok)

PdfSpec == Init /\ [][PdfNext]_vars

\* Page order: moves and drags of pages while selections change, thumbnails
\* arrive and metadata is cleared
PdfOrderNext ==
  \/ \E pageCount \in 1..MaxPages : LoadPdf(pageCount)
  \/ \E i \in DOMAIN pdfFiles : SelectAllPages(i)
  \/ \E i \in DOMAIN pdfFiles : ClearPageSelection(i)
  \/ \E i \in DOMAIN pdfFiles, pos \in 0..(MaxPages - 1), dir \in {-1, 1} :
        MovePageStep(i, pos, dir)
  \/ \E i \in DOMAIN pdfFiles, pos \in 0..(MaxPages - 1) : DragStart(i, pos)
  \/ \E i \in DOMAIN pdfFiles, pos \in 0..(MaxPages - 1) : Drop(i, pos)
  \/ \E i \in DOMAIN pdfFiles : ThumbnailRendered(i)
  \/ \E i \in DOMAIN pdfFiles, ok \in BOOLEAN : ClearMetadata(i, ok)

PdfOrderSpec == Init /\ [][PdfOrderNext]_vars

\* ================================================================ properties
\* C1: after any sequence of user actions targetWidth and targetHeight are
\* each null or a positive integer no greater than MAX_DIMENSION.
C1_TargetDimensionsBounded ==
  /\ tk.targetWidth = Null \/ tk.targetWidth \in 1..MAX_DIMENSION
  /\ tk.targetHeight = Null \/ tk.targetHeight \in 1..MAX_DIMENSION

\* C2: in resize mode with keepAspectInResize on and an image loaded,
\* entering a positive width v leaves targetWidth = v and targetHeight =
\* max(1, round(v * originalHeight / originalWidth)), and entering a positive
\* height v leaves targetHeight = v and targetWidth =
\* max(1, round(v * originalWidth / originalHeight)), whenever neither v nor
\* the paired value exceeds MAX_DIMENSION.
C2_PairedDimensionRecomputed ==
  LET ow == tk.originalWidth
      oh == tk.originalHeight
      v  == lastEvent.value
      \* r is n / d rounded to the nearest integer, ties up
      IsNearest(r, n, d) == 2 * d * r <= 2 * n + d /\ 2 * n + d < 2 * d * (r + 1)
      Paired(p, n, d) ==
        p >= 1 /\ (IsNearest(p, n, d) \/ (p = 1 /\ IsNearest(0, n, d)))
      Unclamped(n, d) == v <= MAX_DIMENSION /\ 2 * n + d < 2 * d * (MAX_DIMENSION + 1)
  IN  /\ tk.mode = "resize" /\ tk.keepAspectInResize /\ tk.file # Null
      /\ ow > 0 /\ oh > 0
      /\ lastEvent.op \in {"handleTargetWidthInput", "handleTargetHeightInput"}
      /\ v > 0
      => /\ lastEvent.op = "handleTargetWidthInput" /\ Unclamped(v * oh, ow)
              => tk.targetWidth = v /\ Paired(tk.targetHeight, v * oh, ow)
         /\ lastEvent.op = "handleTargetHeightInput" /\ Unclamped(v * ow, oh)
              => tk.targetHeight = v /\ Paired(tk.targetWidth, v * ow, oh)

\* C2 witness: a width whose paired height has a fraction to round was
\* entered in resize mode with the aspect lock on, and nothing was clamped
C2_Witness ==
  /\ lastEvent.op = "handleTargetWidthInput" /\ lastEvent.value = 301
  /\ tk.mode = "resize" /\ tk.keepAspectInResize
  /\ tk.originalWidth = 800 /\ tk.originalHeight = 600
  /\ tk.targetWidth = 301 /\ tk.targetHeight = 226

\* C3: for every loaded PDF every element of pageSelection is in
\* 0..pageCount-1 and lastSelectedIndex is null or in that range.
C3_SelectionIndicesValid ==
  \A i \in DOMAIN pdfFiles :
    /\ pdfFiles[i].pageSelection \subseteq 0..(pdfFiles[i].pageCount - 1)
    /\ pdfFiles[i].lastSelectedIndex = Null
         \/ pdfFiles[i].lastSelectedIndex \in 0..(pdfFiles[i].pageCount - 1)

\* C3 witness: the 'a' key selected every page of a PDF whose pages had been
\* reordered and whose last click was on its last page
C3_Witness ==
  /\ lastEvent.op = "onPageGridKeydown"
  /\ \E i \in DOMAIN pdfFiles :
       LET pdf == pdfFiles[i]
       IN  /\ pdf.id = lastEvent.pdf
           /\ pdf.pageCount >= 2
           /\ pdf.pageSelection = 0..(pdf.pageCount - 1)
           /\ pdf.lastSelectedIndex = pdf.pageCount - 1
           /\ pdf.pageOrder # [k \in 1..pdf.pageCount |-> k - 1]

\* C4: the document exportSelectedPages produces holds exactly the selected
\* pages, each once, in the order of the PDF's current pageOrder; with every
\* page selected it has pageCount pages.
C4_ExportMatchesSelection ==
  lastEvent.op = "exportSelectedPages" /\ lastEvent.ok =>
    /\ exported # <<>>
    /\ \A i \in DOMAIN pdfFiles :
         pdfFiles[i].id = lastEvent.pdf =>
           LET pdf   == pdfFiles[i]
               pages == exported[1]
               \* the position of page x in the page order
               PosOf(x) == CHOOSE k \in DOMAIN pdf.pageOrder : pdf.pageOrder[k] = x
           IN  /\ {pages[k] : k \in DOMAIN pages} = pdf.pageSelection
               /\ \A k, l \in DOMAIN pages : k # l => pages[k] # pages[l]
               /\ \A k, l \in DOMAIN pages : k < l => PosOf(pages[k]) < PosOf(pages[l])
               /\ pdf.pageSelection = 0..(pdf.pageCount - 1) => Len(pages) = pdf.pageCount

\* C4 witness: an export of two or more selected pages that the page order
\* lists in another order than their indices
C4_Witness ==
  /\ lastEvent.op = "exportSelectedPages" /\ lastEvent.ok
  /\ exported # <<>>
  /\ \E k, l \in DOMAIN exported[1] : k < l /\ exported[1][k] > exported[1][l]

\* C5: the width and height generateResult uses for the output canvas are
\* integers between 1 and MAX_DIMENSION, in every mode and reachable state.
C5_CanvasSizeBounded ==
  \A t \in tk.pending :
    /\ t.kind = "encode" =>
         t.blob.width \in 1..MAX_DIMENSION /\ t.blob.height \in 1..MAX_DIMENSION
    /\ t.kind = "loadEl" =>
         t.width \in 1..MAX_DIMENSION /\ t.height \in 1..MAX_DIMENSION

\* C6: selecting a file larger than MAX_FILE_SIZE_BYTES leaves file and
\* objectUrl null, the earlier image, result and cropper discarded and
\* errorMessage non-empty, and no such file is ever the loaded file or has
\* its dimensions read; a file of at most MAX_FILE_SIZE_BYTES becomes the
\* loaded file, with an object URL and no error.
C6_OversizeRejected ==
  /\ tk.file # Null => FileTab[tk.file].size <= 50 * 1024 * 1024
  /\ \A t \in tk.pending :
       t.kind = "measure" => FileTab[t.file].size <= 50 * 1024 * 1024
  /\ lastEvent.op = "handleFileSelection" =>
       IF FileTab[lastEvent.file].size > 50 * 1024 * 1024
         THEN /\ tk.file = Null /\ tk.objectUrl = Null
              /\ tk.originalWidth = 0 /\ tk.originalHeight = 0
              /\ tk.targetWidth = Null /\ tk.targetHeight = Null
              /\ tk.resultUrl = Null /\ tk.lastBlob = <<>>
              /\ tk.cropper = Null /\ tk.imageRef = Null
              /\ tk.errorMessage # ""
         ELSE /\ tk.file = lastEvent.file
              /\ tk.objectUrl # Null /\ tk.objectUrl \in tk.liveUrls
              /\ tk.errorMessage = ""

\* C6 witness: an oversize file was selected after two object URLs had been
\* made, and none of them is left
C6_Witness ==
  /\ lastEvent.op = "handleFileSelection"
  /\ FileTab[lastEvent.file].size > MAX_FILE_SIZE_BYTES
  /\ tk.file = Null /\ tk.errorMessage # ""
  /\ tk.urlCount >= 2 /\ tk.liveUrls = {}

\* C7: a selected file whose type is not an image type is rejected with an
\* error: no object URL is created for it, no dimension read is attempted
\* and it does not become the loaded file.
C7_NonImageRejected ==
  /\ tk.file # Null => IsImageType(FileTab[tk.file].type)
  /\ \A t \in tk.pending : t.kind = "measure" => IsImageType(FileTab[t.file].type)
  /\ lastEvent.op = "handleFileSelection" /\ ~IsImageType(FileTab[lastEvent.file].type)
       => tk.objectUrl = Null /\ tk.errorMessage # ""

\* C8: when the Image Toolkit has been mounted afresh with the same local
\* storage, the format, quality and mode in effect once onMount has run are
\* the values the user last set.
C8_PreferencesPersist ==
  [][ lastEvent.op = "mount" /\ lastEvent'.op = "onMount" =>
        /\ userPrefs.mode # "none" => tk'.mode = userPrefs.mode
        /\ userPrefs.selectedFormatValue # "none"
             => tk'.selectedFormatValue = userPrefs.selectedFormatValue
        /\ userPrefs.quality # Null => tk'.quality = userPrefs.quality ]_vars

\* C9: once every dimension read has settled, the state describes the file
\* selected last: originalWidth and originalHeight are that image's, the
\* target dimensions come from it, objectUrl is its unrevoked URL and no
\* dimension-read error is shown.
C9_LastSelectionWins ==
  /\ tk.phase = "alive" /\ tk.file # Null /\ FileTab[tk.file].decodable
  /\ lastEvent.op = "measureImage"
  /\ \A t \in tk.pending : t.kind # "measure"
  => /\ tk.originalWidth = FileTab[tk.file].width
     /\ tk.originalHeight = FileTab[tk.file].height
     /\ tk.targetWidth = CappedSize(FileTab[tk.file].width, FileTab[tk.file].height)[1]
     /\ tk.targetHeight = CappedSize(FileTab[tk.file].width, FileTab[tk.file].height)[2]
     /\ tk.objectUrl # Null /\ tk.objectUrl \in tk.liveUrls
     /\ tk.errorMessage # "Unable to read image dimensions"

\* C10: once the component has been destroyed and all in-flight async work
\* has settled, no object URL it created remains unrevoked.
C10_UrlsRevoked ==
  tk.phase = "destroyed" /\ tk.pending = {} => tk.liveUrls = {}

\* C11: whenever mode is 'resize' and no export is executing, cropper is
\* null: the temporary cropper of a resize export is gone when the export
\* ends, on success and on failure, and leaving crop mode destroys the
\* crop-mode cropper.
C11_NoCropperInResize ==
  tk.mode = "resize" /\ ~tk.processing => tk.cropper = Null /\ tk.liveCroppers = {}

\* C12: at most one Cropper instance is live at any time, the live one is
\* the one `cropper` names, and a settling initialiseCropperWhenReady only
\* brings a cropper into being while mode is 'crop'.
C12_SingleCropper ==
  /\ [](Cardinality(tk.liveCroppers) <= 1)
  /\ [](tk.liveCroppers = {tk.cropper} \ {Null})
  /\ [][ lastEvent'.op = "initialiseCropperWhenReady" /\ tk'.liveCroppers # tk.liveCroppers
           => tk.mode = "crop" /\ tk'.mode = "crop" /\ tk.liveCroppers = {} ]_vars

\* C12 witness: one initialiseCropperWhenReady has made the cropper while
\* another, started for an earlier <img>, is still pending
C12_Witness ==
  /\ lastEvent.op = "initialiseCropperWhenReady"
  /\ tk.cropper # Null /\ tk.mode = "crop"
  /\ \E t \in tk.pending : t.kind = "init" /\ t.img # tk.imageRef

\* C13: when reading the selected image's dimensions fails the selection is
\* rolled back: errorMessage is set, objectUrl is null, file is null and
\* statusMessage no longer reports a loaded image.
C13_FailedReadRolledBack ==
  lastEvent.op = "measureImage" /\ ~lastEvent.ok =>
    /\ tk.errorMessage # ""
    /\ tk.objectUrl = Null
    /\ tk.file = Null
    /\ tk.statusMessage # "Image loaded"

\* C14: a run of generateResult that fails (cropper not ready, no canvas,
\* image not loadable, encoding refused, or an exception while publishing)
\* ends with errorMessage non-empty and statusMessage empty, and downloadBlob
\* is not called in it.
C14_GenerateFailureCaught ==
  [][ (\/ lastEvent'.op \in {"canvasToBlob", "loadOrientedImageElement"} /\ ~lastEvent'.ok
       \/ lastEvent'.op = "canvasToBlob" /\ lastEvent'.ok /\ tk.file = Null
       \/ lastEvent'.op = "generateResult" /\ ~tk'.processing
       \/ /\ lastEvent'.op = "downloadExisting"
          /\ tk.lastBlob = <<>> \/ tk.lastDownloadName = <<>>
          /\ ~tk'.processing)
      => /\ tk'.errorMessage # ""
         /\ tk'.statusMessage = ""
         /\ ~tk'.processing
         /\ tk'.downloaded = tk.downloaded ]_vars

\* C14 witness: the browser refused to encode AVIF
C14_Witness ==
  /\ lastEvent.op = "canvasToBlob" /\ ~lastEvent.ok
  /\ tk.selectedFormat = "avif"
  /\ tk.errorMessage = "This browser cannot export AVIF yet."
  /\ tk.statusMessage = "" /\ ~tk.processing

\* C15: a resize export with keepAspectInResize on, of an image whose
\* dimensions are known, uses an output width w and height h with
\* h = max(1, round(w * originalHeight / originalWidth)) or
\* w = max(1, round(h * originalWidth / originalHeight)).
C15_ResizeKeepsProportions ==
  LET ow == tk.originalWidth
      oh == tk.originalHeight
      \* r is n / d rounded to the nearest integer, ties up
      IsNearest(r, n, d) == 2 * d * r <= 2 * n + d /\ 2 * n + d < 2 * d * (r + 1)
      Paired(p, n, d) ==
        p >= 1 /\ (IsNearest(p, n, d) \/ (p = 1 /\ IsNearest(0, n, d)))
      Proportional(w, h) == Paired(h, w * oh, ow) \/ Paired(w, h * ow, oh)
  IN  /\ lastEvent.op \in {"generateResult", "downloadExisting"}
      /\ tk.mode = "resize" /\ tk.keepAspectInResize
      /\ ow > 0 /\ oh > 0
      => \A t \in tk.pending :
           /\ t.kind = "encode" => Proportional(t.blob.width, t.blob.height)
           /\ t.kind = "loadEl" => Proportional(t.width, t.height)

\* C15 witness: a resize export of the 800x600 image at 8192x6144 has its
\* canvas and is being encoded
C15_Witness ==
  /\ lastEvent.op = "generateResult"
  /\ tk.mode = "resize" /\ tk.keepAspectInResize
  /\ tk.originalWidth = 800 /\ tk.originalHeight = 600
  /\ \E t \in tk.pending :
       t.kind = "encode" /\ t.blob.width = 8192 /\ t.blob.height = 6144

\* C16: the document mergePdfs produces holds, for each PDF in pdfFiles
\* order, that PDF's pages in its pageOrder, all of them when it has no
\* selection and only the selected ones otherwise; its page count is the sum
\* of those per-PDF counts.
C16_MergeFollowsListOrder ==
  lastEvent.op = "mergePdfs" /\ lastEvent.ok =>
    /\ exported # <<>>
    /\ LET out == exported[1]
           Wanted(pdf) == IF pdf.pageSelection = {}
                            THEN 0..(pdf.pageCount - 1) ELSE pdf.pageSelection
           RECURSIVE Before(_)
           \* the pages contributed by the PDFs listed before position i
           Before(i) == IF i <= 1 THEN 0
                        ELSE Before(i - 1) + Cardinality(Wanted(pdfFiles[i - 1]))
           PosOf(pdf, x) == CHOOSE k \in DOMAIN pdf.pageOrder : pdf.pageOrder[k] = x
       IN  /\ Len(out) = Before(Len(pdfFiles) + 1)
           /\ \A i \in DOMAIN pdfFiles :
                LET pdf == pdfFiles[i]
                    seg == (Before(i) + 1)..(Before(i) + Cardinality(Wanted(pdf)))
                IN  /\ \A k \in seg : out[k].pdf = pdf.id
                    /\ {out[k].page : k \in seg} = Wanted(pdf)
                    /\ \A k, l \in seg :
                         k < l => PosOf(pdf, out[k].page) < PosOf(pdf, out[l].page)

\* C16 witness: a merge after the PDFs were reordered, of a PDF with part of
\* its pages selected and a PDF with no selection
C16_Witness ==
  /\ lastEvent.op = "mergePdfs" /\ lastEvent.ok
  /\ Len(pdfFiles) = 2
  /\ pdfFiles[1].id > pdfFiles[2].id
  /\ \E i, j \in DOMAIN pdfFiles :
       /\ pdfFiles[i].pageSelection = {}
       /\ pdfFiles[j].pageSelection # {}
       /\ Cardinality(pdfFiles[j].pageSelection) < pdfFiles[j].pageCount
       /\ Len(exported[1]) = pdfFiles[i].pageCount + Cardinality(pdfFiles[j].pageSelection)

\* C17: for every loaded PDF pageOrder is a permutation of 0..pageCount-1:
\* it has pageCount entries and holds each page index exactly once.
C17_PageOrderIsPermutation ==
  \A i \in DOMAIN pdfFiles :
    LET pdf == pdfFiles[i]
    IN  /\ Len(pdf.pageOrder) = pdf.pageCount
        /\ \A x \in 0..(pdf.pageCount - 1) :
             Cardinality({k \in DOMAIN pdf.pageOrder : pdf.pageOrder[k] = x}) = 1

\* C17 witness: a page was dropped on one of two PDFs, whose first page is
\* no longer page 0, with a selection made, thumbnails rendered and the
\* metadata cleared
C17_Witness ==
  /\ lastEvent.op = "onDrop"
  /\ Len(pdfFiles) = 2
  /\ \E i \in DOMAIN pdfFiles :
       /\ pdfFiles[i].id = lastEvent.pdf
       /\ pdfFiles[i].pageOrder # [k \in 1..pdfFiles[i].pageCount |-> k - 1]
       /\ pdfFiles[i].pageOrder[1] # 0
       /\ pdfFiles[i].pageThumbs > 0
       /\ pdfFiles[i].metadata = "cleared"
       /\ pdfFiles[i].pageSelection # {}

\* C18: the blob downloadExisting hands to downloadBlob was made from the
\* loaded file with the target dimensions, mode, crop shape, format and
\* quality in effect at the click.
C18_DownloadIsCurrent ==
  /\ lastEvent.op = "downloadExisting"
  /\ ~tk.processing /\ tk.errorMessage = "" /\ tk.downloaded # <<>>
  => LET blob == tk.downloaded[1].blob
     IN  /\ blob.file = tk.file
         /\ blob.mode = tk.mode
         /\ tk.mode = "crop" => blob.cropShape = tk.cropShape
         /\ blob.format = tk.selectedFormat
         /\ ~FORMAT_OPTIONS[tk.selectedFormat].lossless => blob.quality = tk.quality
         /\ blob.width = Max(1, Coalesce(tk.targetWidth, tk.originalWidth))
         /\ blob.height = Max(1, Coalesce(tk.targetHeight, tk.originalHeight))

\* C19: while a preview link is shown (resultUrl set, no export running)
\* lastBlob is set, resultSize is that blob's size and lastDownloadName
\* is set.
C19_PreviewLinkHasResult ==
  ControlsShown /\ tk.resultUrl # Null /\ ~tk.processing
  => /\ tk.lastBlob # <<>>
     /\ tk.resultSize = tk.lastBlob[1].size
     /\ tk.lastDownloadName # <<>>

\* C20: a published result belongs to the loaded file: lastBlob is made
\* from the file that is loaded, and what Download delivers under a file's
\* name is made from that file.
C20_ResultOfLoadedFile ==
  /\ tk.lastBlob # <<>> => tk.lastBlob[1].file = tk.file
  /\ tk.resultUrl # Null => tk.file # Null
  /\ tk.downloaded # <<>> =>
       tk.downloaded[1].blob.file = tk.downloaded[1].filename.originalName

\* C21: in crop mode with the aspect lock on and both target dimensions
\* set, entering a new width (height) recomputes the height (width) so that
\* the ratio locked before the edit, aspectRatio or the width:height of the
\* fields, is kept up to rounding.
C21_LockedRatioPreserved ==
  [][LET v  == lastEvent'.value
         ar == tk.aspectRatio
         \* a : b is n : d up to the rounding of b
         Keeps(a, b, n, d) ==
           b >= 1 /\ (b * n - a * d <= n /\ a * d - b * n <= n)
     IN  /\ lastEvent'.op \in {"handleTargetWidthInput", "handleTargetHeightInput"}
         /\ tk.mode = "crop" /\ tk.maintainAspect /\ tk.file # Null
         /\ Truthy(tk.targetWidth) /\ Truthy(tk.targetHeight)
         /\ v > 0 /\ v <= MAX_DIMENSION
         => IF lastEvent'.op = "handleTargetWidthInput"
              THEN /\ tk'.targetWidth = v
                   /\ \/ Keeps(v, tk'.targetHeight, ar[1], ar[2])
                      \/ Keeps(v, tk'.targetHeight, tk.targetWidth, tk.targetHeight)
              ELSE /\ tk'.targetHeight = v
                   /\ \/ Keeps(v, tk'.targetWidth, ar[2], ar[1])
                      \/ Keeps(v, tk'.targetWidth, tk.targetHeight, tk.targetWidth)
    ]_vars

\* C22: in resize mode with keepAspectInResize on and an image loaded,
\* target dimensions that are both set agree with the original image's
\* aspect ratio: one is max(1, round(other * ratio)).
C22_ResizeDimensionsAgree ==
  LET ow == tk.originalWidth
      oh == tk.originalHeight
      tw == tk.targetWidth
      th == tk.targetHeight
      \* r is n / d rounded to the nearest integer, ties up
      IsNearest(r, n, d) == 2 * d * r <= 2 * n + d /\ 2 * n + d < 2 * d * (r + 1)
      Paired(p, n, d) ==
        p >= 1 /\ (IsNearest(p, n, d) \/ (p = 1 /\ IsNearest(0, n, d)))
  IN  /\ tk.mode = "resize" /\ tk.keepAspectInResize
      /\ tk.file # Null /\ ow > 0 /\ oh > 0
      /\ Truthy(tw) /\ Truthy(th)
      => Paired(th, tw * oh, ow) \/ Paired(tw, th * ow, oh)

\* C23: whenever an image is loaded and selectedPresetValue names a preset,
\* targetWidth and targetHeight are that preset's width and height.
C23_PresetMatchesDimensions ==
  /\ tk.file # Null /\ tk.originalWidth > 0 /\ tk.originalHeight > 0
  /\ tk.selectedPresetValue # CUSTOM_PRESET_VALUE
  => /\ tk.selectedPresetValue \in PresetValues
     /\ tk.targetWidth = PRESET_OPTIONS[tk.selectedPresetValue].width
     /\ tk.targetHeight = PRESET_OPTIONS[tk.selectedPresetValue].height

\* C24: while the crop shape is 'circle', the aspect lock is on, the target
\* width equals the target height and aspectRatio is 1.
C24_CircleIsSquare ==
  tk.cropShape = "circle"
  => /\ tk.maintainAspect
     /\ tk.targetWidth = tk.targetHeight
     /\ tk.aspectRatio = One

\* C25: movePage(pdf, from, to) with both positions in range and from # to
\* puts the page that was at from at to and keeps the relative order of the
\* other pages; otherwise it changes nothing; the PDF's selection and every
\* other PDF stay as they were.
C25_MovePageMovesOnePage ==
  [][lastEvent'.op \in {"movePageStep", "onDrop"}
     => /\ Len(pdfFiles') = Len(pdfFiles)
        /\ \A i \in DOMAIN pdfFiles :
             IF pdfFiles[i].id # lastEvent'.pdf
               THEN pdfFiles'[i] = pdfFiles[i]
               ELSE LET from == lastEvent'.from
                        to   == lastEvent'.to
                        old  == pdfFiles[i].pageOrder
                        new  == pdfFiles'[i].pageOrder
                        n    == Len(old)
                        \* the k-th entry of s once position p is left out
                        Skip(s, p, k) == s[IF k <= p THEN k ELSE k + 1]
                    IN  /\ pdfFiles'[i].pageSelection = pdfFiles[i].pageSelection
                        /\ pdfFiles'[i].id = pdfFiles[i].id
                        /\ IF from \in 0..(n - 1) /\ to \in 0..(n - 1) /\ from # to
                             THEN /\ Len(new) = n
                                  /\ new[to + 1] = old[from + 1]
                                  /\ \A k \in 1..(n - 1) :
                                       Skip(new, to, k) = Skip(old, from, k)
                             ELSE new = old
    ]_vars

\* C25 witness: a drag moved the first page of a three-page PDF to the end,
\* past two pages, with a page selected
C25_Witness ==
  /\ lastEvent.op = "onDrop" /\ lastEvent.from = 0 /\ lastEvent.to = 2
  /\ \E i \in DOMAIN pdfFiles :
       /\ pdfFiles[i].id = lastEvent.pdf
       /\ pdfFiles[i].pageCount = 3
       /\ pdfFiles[i].pageOrder[3] = 0
       /\ pdfFiles[i].pageSelection # {}

\* C26: a page drop only reorders the PDF in which the drag started: a drop
\* on a page cell of PDF B right after a drag started on a page of another
\* PDF A leaves B's pageOrder, and every other PDF's, unchanged.
C26_DropStaysInItsPdf ==
  [][/\ lastEvent.op = "onDragStart" /\ lastEvent'.op = "onDrop"
     /\ lastEvent.pdf # lastEvent'.pdf
     => /\ Len(pdfFiles') = Len(pdfFiles)
        /\ \A i \in DOMAIN pdfFiles : pdfFiles'[i].pageOrder = pdfFiles[i].pageOrder
    ]_vars

====
